---- MODULE Spec2Model ----
(***************************************************************************)
(* Model of the Electron main process of claude-sidebar (src/main.js).     *)
(*                                                                         *)
(* Part 1, SpecSession and SpecActivity: the terminal registry (the        *)
(* `terminals` Map), the pty processes spawned by 'terminal-create' and    *)
(* the per-terminal activity window (the closure variables dataBytes and   *)
(* windowStart).  Part 2, SpecOverlay and SpecReset:                       *)
(* ensureEditableSource() and the three reset handlers.  Part 3,           *)
(* SpecWindow: createWindow(), the hot-reload watcher, close, hide and     *)
(* activate.  Part 4, SpecState: save-state / load-state.  Part 5,         *)
(* SpecPath: winToWslPath().                                               *)
(***************************************************************************)
EXTENDS Integers, Sequences, FiniteSets, TLC

\* ---------------------------------------------------------------- bounds
MaxProcs == 2       \* pty processes spawned in one run
MaxEvents == 1      \* output chunks delivered in one run
MaxActProcs == 1    \* processes spawned in a run with the clock
MaxActEvents == 2   \* output chunks delivered in a run with the clock

\* ------------------------------------------------------ program constants
WindowResetMs == 2000   \* main.js:360
StaleMs == 3000         \* main.js:380
ByteThreshold == 500    \* main.js:380

Ids == {"a", "b"}            \* tab ids the renderer passes
ActIds == {"a"}
DataLens == {1, 500, 600}       \* data.length of an output chunk
BurstLens == {600}           \* a chunk that alone makes a session active
Clock == {0, 1000, 2000, 2001, 3000, 3001}      \* the instants (ms) the run observes

VARIABLES
    now,        \* Date.now()
    procs,      \* every pty process spawned so far, by spawn order
    terminals,  \* the Map `terminals`: id -> [pty, alive]
    events,     \* history: the output chunks delivered, <<pid, time, length>>
    reply       \* the last renderer call (op, id) and what it got back (val)

svars == <<now, procs, terminals, events, reply>>

VARIABLES
    bundle,     \* __dirname: the editable files shipped with the app
    ov,         \* APP_SOURCE_DIR: files, hash (.source-hash), xterm, preload,
                \* soul (CLAUDE.md), plugins (PLUGINS_DIR)
    pulls,      \* bundle updates so far
    lastRun     \* the last operation: its name, what it wrote, whether it
                \* threw, whether it swallowed a failed unlink, the file edited

ovars == <<bundle, ov, pulls, lastRun>>

VARIABLES
    mainWindow, \* the BrowserWindow: state, and the preload script it executed
    fileWatcher,\* index in watchers of the root watcher held, 0 for null
    watchers,   \* one entry per startFileWatcher() call: its two fs.watch
                \* handles and its `debounce` timer
    graces,     \* due times of the pending 200 ms reload timers
    closes,     \* due times of the pending 300 ms timers of the close handler
    signals     \* what was pushed to the renderer (sig), by which handler
                \* (by) and when (t), oldest first; an exception no handler
                \* catches is recorded here too

wvars == <<mainWindow, fileWatcher, watchers, graces, closes, signals>>
\* what a write to APP_SOURCE_DIR leaves alone: everything but the timers of
\* the open watchers
wkeep == <<mainWindow, fileWatcher, graces, closes, signals>>

VARIABLES
    stateFile,  \* STATE_FILE on disk: absent, or its text
    lastSaved,  \* history: the snapshot of the last 'save-state' that returned
                \* true
    stateReply, \* the last 'save-state' / 'load-state' call and what it returned
    pathCall    \* winToWslPath: IS_WIN, the argument, and the value returned

xvars == <<stateFile, lastSaved, stateReply, pathCall>>

vars == <<svars, ovars, wvars, xvars>>

\* ------------------------------------------------------------- helpers
\* reply after a callback (onData, onExit, a timer): no renderer call was made
NoReply == [op |-> "none", id |-> "", val |-> "none"]

RECURSIVE SumLens(_)
SumLens(s) == IF s = <<>> THEN 0 ELSE Head(s).n + SumLens(Tail(s))

\* terminals.get(id): the entry, or "undefined"
Has(id) == id \in DOMAIN terminals

\* Map.set / Map.delete
MapSet(m, id, v) == [k \in DOMAIN m \cup {id} |-> IF k = id THEN v ELSE m[k]]
MapDelete(m, id) == [k \in DOMAIN m \ {id} |-> m[k]]

\* Variants of isWorking with one comparison off by one.
IsWorkingAtLeast(p, t) ==
    p.dataBytes >= ByteThreshold /\ (t - p.windowStart) < StaleMs
IsWorkingStaleInclusive(p, t) ==
    p.dataBytes > ByteThreshold /\ (t - p.windowStart) <= StaleMs

\* isWorking: dataBytes > 500 && (Date.now() - windowStart) < 3000
IsWorking(p, t) == p.dataBytes > ByteThreshold /\ (t - p.windowStart) < StaleMs

\* A variant of onData that resets the window at an age of exactly 2000 ms.
DataWindowAtLeast(p, t, n) ==
    IF t - p.windowStart >= WindowResetMs
    THEN [p EXCEPT !.dataBytes = n, !.windowStart = t]
    ELSE [p EXCEPT !.dataBytes = p.dataBytes + n]

\* onData: the lazy reset, then the count
DataWindow(p, t, n) ==
    IF t - p.windowStart > WindowResetMs
    THEN [p EXCEPT !.dataBytes = n, !.windowStart = t]
    ELSE [p EXCEPT !.dataBytes = p.dataBytes + n]

\* ------------------------------------------------------------- actions
SessionInit ==
    /\ now = 0
    /\ procs = <<>>
    /\ terminals = << >>
    /\ events = <<>>
    /\ reply = NoReply

\* ipcMain.handle('terminal-create'): spawn, wire the callbacks, terminals.set.
\* There is no look-up of id before the spawn; the handler returns { id }.
TerminalCreate(id) ==
    /\ procs' = Append(procs, [id |-> id, dataBytes |-> 0, windowStart |-> now,
                               exited |-> FALSE, signalled |-> FALSE,
                               destroyed |-> FALSE])
    /\ terminals' = MapSet(terminals, id, [pty |-> Len(procs) + 1, alive |-> TRUE])
    /\ reply' = [op |-> "create", id |-> id, val |-> "created"]
    /\ UNCHANGED <<now, events, ovars, wvars, xvars>>

\* ptyProcess.onData of process pid, a chunk of length n
OnData(pid, n) ==
    /\ pid \in 1..Len(procs)
    /\ ~procs[pid].exited
    /\ procs' = [procs EXCEPT ![pid] = DataWindow(procs[pid], now, n)]
    /\ events' = Append(events, [pid |-> pid, t |-> now, n |-> n])
    /\ reply' = NoReply
    /\ UNCHANGED <<now, terminals, ovars, wvars, xvars>>

\* ptyProcess.onExit of process pid: terminals.get(id) of the id it was created
\* under, whichever process that entry holds now
OnExit(pid) ==
    /\ pid \in 1..Len(procs)
    /\ ~procs[pid].exited
    /\ procs' = [procs EXCEPT ![pid].exited = TRUE]
    /\ terminals' = IF Has(procs[pid].id)
                    THEN [terminals EXCEPT ![procs[pid].id].alive = FALSE]
                    ELSE terminals
    /\ reply' = NoReply
    /\ UNCHANGED <<now, events, ovars, wvars, xvars>>

\* ipcMain.on('terminal-input'): term.pty.write(data) when present and alive.
\* reply.val is the process written to, 0 when nothing is written.
TerminalInput(id) ==
    /\ reply' = [op |-> "input", id |-> id,
                 val |-> IF Has(id) /\ terminals[id].alive
                         THEN terminals[id].pty ELSE 0]
    /\ UNCHANGED <<now, procs, terminals, events, ovars, wvars, xvars>>

\* A variant of 'terminal-destroy' that keeps the entry when kill() threw.
TerminalDestroyKillGated(id, killed) ==
    /\ IF Has(id)
       THEN /\ procs' = [procs EXCEPT ![terminals[id].pty].signalled = @ \/ killed,
                                      ![terminals[id].pty].destroyed = TRUE]
            /\ terminals' = IF killed THEN MapDelete(terminals, id) ELSE terminals
       ELSE UNCHANGED <<procs, terminals>>
    /\ reply' = [op |-> "destroy", id |-> id, val |-> "none"]
    /\ UNCHANGED <<now, events, ovars, wvars, xvars>>

\* ipcMain.on('terminal-destroy'): try { kill } catch {}, then delete.
\* killed: whether term.pty.kill() delivered the signal or threw.
TerminalDestroy(id, killed) ==
    /\ IF Has(id)
       THEN /\ procs' = [procs EXCEPT ![terminals[id].pty].signalled = @ \/ killed,
                                      ![terminals[id].pty].destroyed = TRUE]
            /\ terminals' = MapDelete(terminals, id)
       ELSE UNCHANGED <<procs, terminals>>
    /\ reply' = [op |-> "destroy", id |-> id, val |-> "none"]
    /\ UNCHANGED <<now, events, ovars, wvars, xvars>>

\* destroyAllTerminals (close timer, will-quit): kill each, then clear
DestroyAllTerminals(killed) ==
    /\ procs' = [pid \in 1..Len(procs) |->
                    IF \E id \in DOMAIN terminals : terminals[id].pty = pid
                    THEN [procs[pid] EXCEPT !.signalled = @ \/ killed,
                                            !.destroyed = TRUE]
                    ELSE procs[pid]]
    /\ terminals' = << >>
    /\ reply' = NoReply
    /\ UNCHANGED <<now, events, ovars, wvars, xvars>>

\* what destroyAllTerminals leaves of procs: each process held by an entry has
\* been sent kill()
KilledProcs(killed) ==
    [pid \in 1..Len(procs) |->
        IF \E id \in DOMAIN terminals : terminals[id].pty = pid
        THEN [procs[pid] EXCEPT !.signalled = @ \/ killed, !.destroyed = TRUE]
        ELSE procs[pid]]

\* ipcMain.handle('terminal-is-active'): the value returned at time t
TerminalIsActive(id, t) ==
    IF ~Has(id) THEN FALSE ELSE IsWorking(procs[terminals[id].pty], t)

\* the clock moves on to a later instant
Tick(t) ==
    /\ t > now
    /\ now' = t
    /\ reply' = NoReply
    /\ UNCHANGED <<procs, terminals, events, ovars, wvars, xvars>>

\* The registry's life cycle: two ids, no clock (every window is fresh).
SessionNext ==
    \/ \E id \in Ids : Len(procs) < MaxProcs /\ TerminalCreate(id)
    \/ \E pid \in 1..MaxProcs, n \in BurstLens :
          Len(events) < MaxEvents /\ OnData(pid, n)
    \/ \E pid \in 1..MaxProcs : OnExit(pid)
    \/ \E id \in Ids : TerminalInput(id)
    \/ \E id \in Ids, killed \in BOOLEAN : TerminalDestroy(id, killed)
    \/ \E killed \in BOOLEAN : DestroyAllTerminals(killed)


\* The activity window: one id, the clock, the output chunks.
ActivityNext ==
    \/ \E id \in ActIds : Len(procs) < MaxActProcs /\ TerminalCreate(id)
    \/ \E pid \in 1..MaxActProcs, n \in DataLens :
          Len(events) < MaxActEvents /\ OnData(pid, n)
    \/ \E pid \in 1..MaxActProcs : OnExit(pid)
    \/ \E id \in ActIds : TerminalDestroy(id, TRUE)
    \/ \E t \in Clock : Tick(t)


\* ------------------------------------------------- session claims
\* The process a registry entry holds.
ProcOf(id) == procs[terminals[id].pty]

\* The output chunks of process pid received since its windowStart, and their
\* summed length, read off the history (not off dataBytes).
CountedEvents(pid) ==
    SelectSeq(events, LAMBDA e : e.pid = pid /\ e.t >= procs[pid].windowStart)
BytesSince(pid) == SumLens(CountedEvents(pid))

\* C1: a create(id) call made while id is in the registry with alive = true is
\* answered DuplicateSession, spawns no process and leaves the registry as it
\* was.
C1_DuplicateRejected ==
    [][\A id \in Ids :
          (Has(id) /\ terminals[id].alive
             /\ reply'.op = "create" /\ reply'.id = id)
          => (reply'.val = "DuplicateSession"
                /\ procs' = procs /\ terminals' = terminals)]_svars

\* C2: the exit notification of a process whose session was destroyed earlier
\* leaves the registry exactly as it was, also when the id has been created
\* again in between.
C2_LateExitIgnored ==
    [][\A pid \in 1..Len(procs) :
          (procs[pid].destroyed /\ ~procs[pid].exited /\ procs'[pid].exited)
          => terminals' = terminals]_svars

\* C3: an entry whose process has exited stays in the registry until a destroy
\* removes it, and isActive is false for it from the exit on, whatever its
\* byte count.
C3_ExitedNotActive ==
    [][\A id \in Ids :
          /\ (Has(id) /\ ProcOf(id).exited /\ ~(id \in DOMAIN terminals'))
                => procs'[terminals[id].pty].destroyed
          /\ (id \in DOMAIN terminals' /\ procs'[terminals'[id].pty].exited)
                => ~TerminalIsActive(id, now)']_svars

\* C4: for an id in the registry, isActive at time now is true exactly when
\* the chunks received since windowStart sum to more than 500 and the window
\* is less than 3000 ms old; and every chunk counted arrived at most 2000 ms
\* after windowStart.
C4_IsActiveIff ==
    \A id \in Ids :
        Has(id) =>
            /\ TerminalIsActive(id, now)
                  <=> (BytesSince(terminals[id].pty) > 500
                         /\ now - ProcOf(id).windowStart < 3000)
            /\ \A i \in 1..Len(CountedEvents(terminals[id].pty)) :
                  CountedEvents(terminals[id].pty)[i].t
                      - ProcOf(id).windowStart <= 2000

C4_Witness ==
    \E id \in Ids :
        /\ Has(id) /\ TerminalIsActive(id, now)
        /\ Len(CountedEvents(terminals[id].pty)) >= 2
        /\ now > ProcOf(id).windowStart

\* C5: once the window is 3000 ms old, isActive is false, although the count
\* still exceeds 500 and no chunk came to reset the window.
C5_StaleInactive ==
    \A id \in Ids :
        (Has(id) /\ now - ProcOf(id).windowStart >= 3000)
            => ~TerminalIsActive(id, now)

C5_Witness ==
    \E id \in Ids :
        /\ Has(id) /\ ProcOf(id).dataBytes > 500
        /\ BytesSince(terminals[id].pty) > 500
        /\ now - ProcOf(id).windowStart >= 3000
        /\ ~ProcOf(id).exited
        /\ ~TerminalIsActive(id, now)

\* C6: destroy(id) removes the entry whether or not kill() succeeded; the id
\* then stays absent until a create(id), and while it is absent isActive(id)
\* is false and sendInput(id) writes to no process.
C6_DestroyRemoves ==
    [][/\ reply'.op = "destroy" => ~(reply'.id \in DOMAIN terminals')
       /\ \A id \in Ids :
            /\ (~Has(id) /\ ~(reply'.op = "create" /\ reply'.id = id))
                  => ~(id \in DOMAIN terminals')
            /\ ~(id \in DOMAIN terminals') => ~TerminalIsActive(id, now)'
       /\ (reply'.op = "input" /\ ~Has(reply'.id)) => reply'.val = 0]_svars

C6_Witness ==
    /\ reply.op = "input" /\ ~Has(reply.id) /\ reply.val = 0
    /\ \E pid \in 1..Len(procs) :
          /\ procs[pid].id = reply.id
          /\ procs[pid].destroyed /\ ~procs[pid].signalled
          /\ ~procs[pid].exited
          /\ IsWorking(procs[pid], now)

\* C19: for an id that stays in the registry, alive goes from true to false
\* only in the step in which the process the entry holds exits, and from
\* false to true only by a 'terminal-create' of that id; an entry leaves the
\* registry only with its process destroyed (by 'terminal-destroy' of the id
\* or by destroyAllTerminals).
C19_Lifecycle ==
    [][\A id \in Ids :
          /\ (/\ Has(id) /\ id \in DOMAIN terminals'
              /\ terminals[id].alive /\ ~terminals'[id].alive)
                => (~ProcOf(id).exited /\ procs'[terminals[id].pty].exited)
          /\ (/\ Has(id) /\ id \in DOMAIN terminals'
              /\ ~terminals[id].alive /\ terminals'[id].alive)
                => (reply'.op = "create" /\ reply'.id = id)
          /\ (Has(id) /\ ~(id \in DOMAIN terminals'))
                => procs'[terminals[id].pty].destroyed]_svars

\* C29: every process 'terminal-create' spawned that has not exited is the
\* process of an entry of the registry, or kill() was called on it (by
\* 'terminal-destroy' or by destroyAllTerminals).
C29_NoOrphanProcess ==
    \A pid \in 1..Len(procs) :
        \/ procs[pid].exited
        \/ \E id \in DOMAIN terminals : terminals[id].pty = pid
        \/ procs[pid].destroyed

\* C20: an output chunk of length n that arrives more than 2000 ms after
\* windowStart leaves windowStart = now and dataBytes = n, and isActive is
\* then true only if n alone exceeds 500; a chunk that arrives at most
\* 2000 ms after windowStart adds n to dataBytes and leaves windowStart.
C20_LazyReset ==
    [][\A pid \in 1..Len(procs) :
          (/\ Len(events') = Len(events) + 1
           /\ events'[Len(events')].pid = pid)
          => LET n == events'[Len(events')].n IN
             IF now - procs[pid].windowStart > 2000
             THEN /\ procs'[pid].windowStart = now
                  /\ procs'[pid].dataBytes = n
                  /\ \A id \in DOMAIN terminals' :
                        terminals'[id].pty = pid
                          => (TerminalIsActive(id, now)' <=> n > 500)
             ELSE /\ procs'[pid].windowStart = procs[pid].windowStart
                  /\ procs'[pid].dataBytes = procs[pid].dataBytes + n]_svars

\* a chunk has just reset the window: it came more than 2000 ms after an
\* earlier chunk, the count is its length alone, and the session is not
\* active although all its chunks together exceed 500
C20_Witness ==
    \E id \in Ids :
        /\ Has(id)
        /\ Len(events) >= 2
        /\ LET e == events[Len(events)] IN
           /\ e.pid = terminals[id].pty /\ e.t = now
           /\ ProcOf(id).windowStart = now
           /\ ProcOf(id).dataBytes = e.n
           /\ events[1].pid = e.pid /\ e.t - events[1].t > 2000
           /\ events[1].n + e.n > 500
        /\ ~TerminalIsActive(id, now)

(***************************************************************************)
(* Part 2, SpecOverlay: the bundled source (__dirname), the editable copy  *)
(* in APP_SOURCE_DIR and ensureEditableSource().  A file is a record       *)
(* [exists, data]; data is a string, a sequence of characters (numbers,    *)
(* 0 being a white-space character).                                       *)
(***************************************************************************)
MaxPulls == 1       \* updates of the bundle (git pull, npm install) in one run

EDITABLE_FILES == <<"renderer.js", "styles.css", "index.html">>
EditableSet == {EDITABLE_FILES[i] : i \in 1..Len(EDITABLE_FILES)}

NoFile == [exists |-> FALSE, data |-> <<>>]
File(d) == [exists |-> TRUE, data |-> d]

BundleData == {<<1>>, <<2>>}     \* contents a bundled editable file may have
UserData == <<3>>                \* what an edit in the overlay writes
BundledPreload == <<7>>          \* __dirname/preload.js
DefaultSoul == <<8>>             \* the CLAUDE.md template
FailPoints == {"none", "mkdir", "renderer.js", "styles.css", "index.html",
               "hash", "xterm", "preload", "soul"}
PluginNames == {"n.txt", "p.js", "q.css"} \* files a user may drop in plugins/

\* crypto sha256 + digest('hex'): one token per distinct input, never a
\* character of a file (collisions of SHA-256 are not modelled)
RECURSIVE Encode(_)
Encode(x) == IF x = <<>> THEN 0 ELSE Encode(SubSeq(x, 1, Len(x) - 1)) * 4 + x[Len(x)]
Sha256Hex(x) == <<100 + Encode(x)>>

\* hashFiles(dir, files): h.update() of each file that exists, in list order
RECURSIVE HashInput(_, _)
HashInput(dir, i) ==
    IF i > Len(EDITABLE_FILES) THEN <<>>
    ELSE (IF dir[EDITABLE_FILES[i]].exists THEN dir[EDITABLE_FILES[i]].data ELSE <<>>)
         \o HashInput(dir, i + 1)
HashFiles(dir) == Sha256Hex(HashInput(dir, 1))

\* String.prototype.trim
RECURSIVE Trim(_)
Trim(x) ==
    IF x = <<>> THEN x
    ELSE IF Head(x) = 0 THEN Trim(Tail(x))
    ELSE IF x[Len(x)] = 0 THEN Trim(SubSeq(x, 1, Len(x) - 1))
    ELSE x

\* cachedHash: '' when .source-hash cannot be read
CachedHash(o) == IF o.hash.exists THEN Trim(o.hash.data) ELSE <<>>

\* A variant that takes the bundle for changed on every run.
SourceUpdatedAlways(o, b) == TRUE

\* sourceUpdated = bundledHash !== cachedHash
SourceUpdated(o, b) == HashFiles(b) # CachedHash(o)

\* A variant that rewrites CLAUDE.md on every run.
SoulMissingAlways(o) == TRUE

\* !fs.existsSync(claudeMd)
SoulMissing(o) == ~o.soul.exists

\* A variant of the loop that copies a file only when the overlay lacks it.
RECURSIVE CopyLoopMissingOnly(_, _, _, _, _)
CopyLoopMissingOnly(i, st, b, updated, failAt) ==
    IF i > Len(EDITABLE_FILES) \/ st.threw THEN st
    ELSE LET f == EDITABLE_FILES[i] IN
         IF b[f].exists /\ ~st.files[f].exists
         THEN IF failAt = f
              THEN [st EXCEPT !.threw = TRUE]
              ELSE CopyLoopMissingOnly(i + 1,
                            [st EXCEPT !.files[f] = b[f],
                                       !.copied = @ \cup {f}],
                            b, updated, failAt)
         ELSE CopyLoopMissingOnly(i + 1, st, b, updated, failAt)

\* A variant of the loop with a try/catch around each copy: a copy that fails
\* is skipped and the loop goes on.
RECURSIVE CopyLoopCatching(_, _, _, _, _)
CopyLoopCatching(i, st, b, updated, failAt) ==
    IF i > Len(EDITABLE_FILES) \/ st.threw THEN st
    ELSE LET f == EDITABLE_FILES[i] IN
         IF ~b[f].exists THEN CopyLoopCatching(i + 1, st, b, updated, failAt)
         ELSE IF ~st.files[f].exists \/ updated
         THEN IF failAt = f
              THEN CopyLoopCatching(i + 1, st, b, updated, failAt)
              ELSE CopyLoopCatching(i + 1,
                            [st EXCEPT !.files[f] = b[f],
                                       !.copied = @ \cup {f}],
                            b, updated, failAt)
         ELSE CopyLoopCatching(i + 1, st, b, updated, failAt)

\* The for loop of ensureEditableSource over EDITABLE_FILES from index i on.
\* st = [files, copied, threw]; copyFileSync of file failAt throws.
RECURSIVE CopyLoop(_, _, _, _, _)
CopyLoop(i, st, b, updated, failAt) ==
    IF i > Len(EDITABLE_FILES) \/ st.threw THEN st
    ELSE LET f == EDITABLE_FILES[i] IN
         IF ~b[f].exists THEN CopyLoop(i + 1, st, b, updated, failAt)
         ELSE IF ~st.files[f].exists \/ updated
         THEN IF failAt = f
              THEN [st EXCEPT !.threw = TRUE]
              ELSE CopyLoop(i + 1,
                            [st EXCEPT !.files[f] = b[f],
                                       !.copied = @ \cup {f}],
                            b, updated, failAt)
         ELSE CopyLoop(i + 1, st, b, updated, failAt)

\* ensureEditableSource(): the overlay it leaves and what the run did.
\* An exception leaves everything written before it in place; run.file names
\* the editable file whose copy threw.
EnsureEditableSource(o, b, failAt) ==
    LET updated == SourceUpdated(o, b)
        o0 == [o EXCEPT !.plugins.dir = TRUE]
        loop == CopyLoop(1, [files |-> o.files, copied |-> {}, threw |-> FALSE],
                         b, updated, failAt)
        o1 == [o0 EXCEPT !.files = loop.files]
        run0 == [op |-> "sync", copied |-> loop.copied, wroteHash |-> FALSE,
                 wrotePreload |-> FALSE, wroteSoul |-> FALSE, threw |-> FALSE,
                 swallowed |-> FALSE, file |-> ""]
        thrown(oo, rr) == [ov |-> oo, run |-> [rr EXCEPT !.threw = TRUE]]
    IN  IF failAt = "mkdir" THEN thrown(o, [run0 EXCEPT !.copied = {}])
        ELSE IF loop.threw THEN thrown(o1, [run0 EXCEPT !.file = failAt])
        ELSE IF updated /\ failAt = "hash" THEN thrown(o1, run0)
        ELSE
        LET o2 == IF updated THEN [o1 EXCEPT !.hash = File(HashFiles(b))] ELSE o1
            run2 == [run0 EXCEPT !.wroteHash = updated]
        IN  IF ~o2.xterm /\ failAt = "xterm" THEN thrown(o2, run2)
            ELSE
            LET o3 == [o2 EXCEPT !.xterm = TRUE] IN
            IF failAt = "preload" THEN thrown(o3, run2)
            ELSE
            LET o4 == [o3 EXCEPT !.preload = File(BundledPreload)]
                run4 == [run2 EXCEPT !.wrotePreload = TRUE] IN
            IF SoulMissing(o4) /\ failAt = "soul" THEN thrown(o4, run4)
            ELSE IF SoulMissing(o4)
                 THEN [ov |-> [o4 EXCEPT !.soul = File(DefaultSoul)],
                       run |-> [run4 EXCEPT !.wroteSoul = TRUE]]
                 ELSE [ov |-> o4, run |-> run4]

(***************************************************************************)
(* Part 3, SpecWindow and SpecWatch: createWindow(), the two fs.watch       *)
(* watchers of startFileWatcher() with their shared debounce timer, the    *)
(* reload, the close handler, the hotkey, 'activate' and quit.             *)
(***************************************************************************)
MaxWinTime == 1500      \* the clock of the window runs stops here (ms)

MaxSignals == 2         \* close requests and hotkey presses stop once this
                        \* many signals were pushed

DebounceMs == 500       \* main.js:214
GraceMs == 200          \* main.js:211
CloseMs == 300          \* main.js:180
WinSteps == {100, 500}  \* clock advances (ms)

\* filename.endsWith(ext), for the file names that occur in APP_SOURCE_DIR
\* and in PLUGINS_DIR
Ext(filename) ==
    CASE filename \in {"renderer.js", "preload.js", "p.js"} -> ".js"
      [] filename \in {"styles.css", "q.css"} -> ".css"
      [] filename = "n.txt" -> ".txt"
      [] filename = "index.html" -> ".html"
      [] filename = "CLAUDE.md" -> ".md"
      [] OTHER -> ""

\* isEditable of the root watcher
IsEditable(filename) ==
    filename \in EditableSet \/ Ext(filename) = ".css" \/ Ext(filename) = ".js"

\* the action a change event stands for: 'hot-reload-css' for styles.css in
\* APP_SOURCE_DIR, save-state and reload for everything else
Kind(dir, filename) ==
    IF dir = "root" /\ filename = "styles.css" THEN "patch" ELSE "reload"

\* `debounce`; burst is history: the kinds of the events since the timer was
\* last armed from idle
NoTimer == [armed |-> FALSE, due |-> 0, src |-> "", file |-> "", burst |-> <<>>]

Signal(sig, by, t) == [sig |-> sig, by |-> by, t |-> t, burst |-> <<>>]

\* A variant of the callbacks in which a pending timer keeps the file name of
\* the event that armed it.
DeliverFirstWins(ws, dir, filename, t) ==
    [i \in 1..Len(ws) |->
        IF \/ dir = "root" /\ ws[i].rootOpen /\ IsEditable(filename)
           \/ dir = "plugins" /\ ws[i].pluginsOpen
        THEN [ws[i] EXCEPT !.debounce =
                 [armed |-> TRUE, due |-> t + DebounceMs,
                  src |-> IF ws[i].debounce.armed THEN ws[i].debounce.src ELSE dir,
                  file |-> IF ws[i].debounce.armed THEN ws[i].debounce.file
                           ELSE filename,
                  burst |-> Append(IF ws[i].debounce.armed
                                   THEN ws[i].debounce.burst ELSE <<>>,
                                   Kind(dir, filename))]]
        ELSE ws[i]]

\* The callbacks of the fs.watch handles that are open for a change of
\* `filename` in dir ("root" or "plugins") at time t: clearTimeout, setTimeout.
Deliver(ws, dir, filename, t) ==
    [i \in 1..Len(ws) |->
        IF \/ dir = "root" /\ ws[i].rootOpen /\ IsEditable(filename)
           \/ dir = "plugins" /\ ws[i].pluginsOpen
        THEN [ws[i] EXCEPT !.debounce =
                 [armed |-> TRUE, due |-> t + DebounceMs,
                  src |-> dir, file |-> filename,
                  burst |-> Append(IF ws[i].debounce.armed
                                   THEN ws[i].debounce.burst ELSE <<>>,
                                   Kind(dir, filename))]]
        ELSE ws[i]]

\* stopFileWatcher(): closes the root watcher held in fileWatcher, nothing else
StopFileWatcher(ws, fw) ==
    IF fw # 0 THEN [ws EXCEPT ![fw].rootOpen = FALSE] ELSE ws

\* the due times of every timer that is pending
PendingDues ==
    {watchers[i].debounce.due : i \in {j \in 1..Len(watchers) : watchers[j].debounce.armed}}
    \cup {graces[i] : i \in 1..Len(graces)}
    \cup {closes[i] : i \in 1..Len(closes)}

NoWindow == [state |-> "null", preload |-> NoFile, visible |-> FALSE]

WindowInit ==
    /\ mainWindow = NoWindow
    /\ fileWatcher = 0
    /\ watchers = <<>>
    /\ graces = <<>>
    /\ closes = <<>>
    /\ signals = <<>>

\* the fs.watch calls of startFileWatcher() that may throw (ENOSPC, EMFILE)
WatchFails == {"watch", "watchPlugins"}

\* startFileWatcher(): stopFileWatcher(), then fs.watch of APP_SOURCE_DIR
\* and of PLUGINS_DIR, neither in a try block.  The result is the watcher
\* entries, the value of fileWatcher and whether the call threw.
StartFileWatcher(ws, fw, failAt) ==
    LET stopped == StopFileWatcher(ws, fw) IN
    IF failAt = "watch"
    THEN [watchers |-> stopped, fileWatcher |-> 0, threw |-> TRUE]
    ELSE [watchers |-> Append(stopped,
                              [rootOpen |-> TRUE,
                               pluginsOpen |-> failAt # "watchPlugins",
                               debounce |-> NoTimer]),
          fileWatcher |-> Len(ws) + 1,
          threw |-> failAt = "watchPlugins"]

\* createWindow(): ensureEditableSource(), new BrowserWindow with preload
\* APP_SOURCE_DIR/preload.js, loadFile, startFileWatcher().  An exception of
\* the sync leaves createWindow before the window exists, one of fs.watch
\* leaves it with the window open.  It is called at start-up and, on macOS,
\* by 'activate' when no window is left.
CreateWindow(failAt) ==
    /\ mainWindow.state \in {"null", "destroyed"}
    /\ LET r == EnsureEditableSource(ov, bundle, failAt)
           w == StartFileWatcher(watchers, fileWatcher, failAt) IN
       /\ ov' = r.ov
       /\ lastRun' = r.run
       /\ IF r.run.threw
          THEN UNCHANGED <<mainWindow, fileWatcher, watchers, signals>>
          ELSE /\ mainWindow' = [state |-> "open", preload |-> r.ov.preload,
                                 visible |-> TRUE]
               /\ watchers' = w.watchers
               /\ fileWatcher' = w.fileWatcher
               /\ signals' = IF w.threw
                             THEN Append(signals,
                                      Signal("uncaught-exception", "createWindow", now))
                             ELSE signals
    /\ UNCHANGED <<bundle, pulls, graces, closes, svars, xvars>>

\* The debounce timer of watcher entry i fires
DebounceFire(i) ==
    /\ i \in 1..Len(watchers)
    /\ watchers[i].debounce.armed
    /\ watchers[i].debounce.due <= now
    /\ watchers' = [watchers EXCEPT ![i].debounce.armed = FALSE]
    /\ IF mainWindow.state = "open"
       THEN IF watchers[i].debounce.src = "root"
                /\ watchers[i].debounce.file = "styles.css"
            THEN /\ signals' = Append(signals,
                       [Signal("hot-reload-css", "watcher", now)
                          EXCEPT !.burst = watchers[i].debounce.burst])
                 /\ graces' = graces
            ELSE /\ signals' = Append(signals,
                       [Signal("save-state", "watcher", now)
                          EXCEPT !.burst = watchers[i].debounce.burst])
                 /\ graces' = Append(graces, now + GraceMs)
       ELSE UNCHANGED <<signals, graces>>
    /\ UNCHANGED <<mainWindow, fileWatcher, closes, svars, ovars, xvars>>

\* The 200 ms timer fires: mainWindow.webContents.reloadIgnoringCache().
\* The renderer starts over and executes the preload script found at the
\* window's preload path, APP_SOURCE_DIR/preload.js, as it is on disk now.
GraceFire ==
    /\ graces # <<>>
    /\ Head(graces) <= now
    /\ graces' = Tail(graces)
    /\ IF mainWindow.state = "open"
       THEN /\ mainWindow' = [mainWindow EXCEPT !.preload = ov.preload]
            /\ signals' = Append(signals, Signal("reload", "watcher", now))
       ELSE /\ signals' = Append(signals, Signal("uncaught-exception", "watcher", now))
            /\ UNCHANGED mainWindow
    /\ UNCHANGED <<fileWatcher, watchers, closes, svars, ovars, xvars>>

\* mainWindow.on('close'): preventDefault, send 'save-state', arm the 300 ms
\* timer
WindowClose ==
    /\ mainWindow.state = "open"
    /\ signals' = Append(signals, Signal("save-state", "close", now))
    /\ closes' = Append(closes, now + CloseMs)
    /\ UNCHANGED <<mainWindow, fileWatcher, watchers, graces, svars, ovars, xvars>>

\* The 300 ms timer fires: destroyAllTerminals(), stopFileWatcher(),
\* mainWindow.destroy().  mainWindow is the variable as it is now; destroy()
\* of a window that is already destroyed throws.
CloseFire(killed) ==
    /\ closes # <<>>
    /\ Head(closes) <= now
    /\ closes' = Tail(closes)
    /\ procs' = KilledProcs(killed)
    /\ terminals' = << >>
    /\ watchers' = StopFileWatcher(watchers, fileWatcher)
    /\ fileWatcher' = 0
    /\ IF mainWindow.state = "open"
       THEN /\ mainWindow' = [mainWindow EXCEPT !.state = "destroyed"]
            /\ signals' = signals
       ELSE /\ signals' = Append(signals, Signal("uncaught-exception", "close", now))
            /\ UNCHANGED mainWindow
    /\ reply' = NoReply
    /\ UNCHANGED <<now, events, graces, ovars, xvars>>

\* A variant of the hotkey that hides the window without the signal.
ToggleKeySilent ==
    /\ mainWindow.state \in {"open", "destroyed"}
    /\ IF mainWindow.state = "destroyed"
       THEN /\ signals' = Append(signals, Signal("uncaught-exception", "toggle", now))
            /\ UNCHANGED mainWindow
       ELSE IF mainWindow.visible
       THEN /\ signals' = signals
            /\ mainWindow' = [mainWindow EXCEPT !.visible = FALSE]
       ELSE /\ signals' = signals
            /\ mainWindow' = [mainWindow EXCEPT !.visible = TRUE]
    /\ UNCHANGED <<fileWatcher, watchers, graces, closes, svars, ovars, xvars>>

\* The globalShortcut callback: isVisible() ? send 'save-state', hide()
\* : show().  isVisible() of a destroyed window throws.
ToggleKey ==
    /\ mainWindow.state \in {"open", "destroyed"}
    /\ IF mainWindow.state = "destroyed"
       THEN /\ signals' = Append(signals, Signal("uncaught-exception", "toggle", now))
            /\ UNCHANGED mainWindow
       ELSE IF mainWindow.visible
       THEN /\ signals' = Append(signals, Signal("save-state", "toggle", now))
            /\ mainWindow' = [mainWindow EXCEPT !.visible = FALSE]
       ELSE /\ signals' = signals
            /\ mainWindow' = [mainWindow EXCEPT !.visible = TRUE]
    /\ UNCHANGED <<fileWatcher, watchers, graces, closes, svars, ovars, xvars>>

\* app.on('activate') with a window left: show(), focus()
ActivateShow ==
    /\ mainWindow.state = "open"
    /\ ~mainWindow.visible
    /\ mainWindow' = [mainWindow EXCEPT !.visible = TRUE]
    /\ UNCHANGED <<fileWatcher, watchers, graces, closes, signals, svars, ovars, xvars>>

\* 'window-all-closed' where the app quits (not macOS), then 'will-quit':
\* destroyAllTerminals(), stopFileWatcher(); the process ends and with it
\* every watcher and timer.  What is left is the state before start-up.
AppQuit(killed) ==
    /\ mainWindow.state = "destroyed"
    /\ procs' = KilledProcs(killed)
    /\ terminals' = << >>
    /\ reply' = NoReply
    /\ mainWindow' = NoWindow
    /\ fileWatcher' = 0
    /\ watchers' = <<>>
    /\ graces' = <<>>
    /\ closes' = <<>>
    /\ signals' = <<>>
    /\ UNCHANGED <<now, events, ovars, xvars>>

\* the clock moves on, never past a pending timer
WinTick(d) ==
    /\ \A due \in PendingDues : now + d <= due
    /\ now' = now + d
    /\ UNCHANGED <<procs, terminals, events, reply, ovars, wvars, xvars>>

NoRun == [op |-> "none", copied |-> {}, wroteHash |-> FALSE,
          wrotePreload |-> FALSE, wroteSoul |-> FALSE, threw |-> FALSE,
          swallowed |-> FALSE, file |-> ""]

\* A fresh installation: the bundle in place, APP_SOURCE_DIR empty.
OverlayInit ==
    /\ bundle \in [EditableSet -> {File(<<1>>)}]
    /\ ov = [files |-> [f \in EditableSet |-> NoFile], hash |-> NoFile,
             xterm |-> FALSE, preload |-> NoFile, soul |-> NoFile,
             plugins |-> [dir |-> FALSE, files |-> [f \in PluginNames |-> NoFile]]]
    /\ pulls = 0
    /\ lastRun = NoRun

\* One run of the sync (at createWindow, or re-run by a reset)
Sync(failAt) ==
    /\ LET r == EnsureEditableSource(ov, bundle, failAt)
       IN  ov' = r.ov /\ lastRun' = r.run
    /\ UNCHANGED <<bundle, pulls, svars, wvars, xvars>>

\* The bundle is replaced between two runs of the app: file f changes or goes
BundleUpdate(f, c) ==
    /\ c # bundle[f]
    /\ bundle' = [bundle EXCEPT ![f] = c]
    /\ pulls' = pulls + 1
    /\ lastRun' = [NoRun EXCEPT !.op = "pull"]
    /\ UNCHANGED <<ov, svars, wvars, xvars>>

\* What every change of a file of APP_SOURCE_DIR brings with it: the open
\* watchers are told.
Edited(filename) ==
    /\ watchers' = Deliver(watchers, "root", filename, now)
    /\ lastRun' = [NoRun EXCEPT !.op = "edit", !.file = filename]
    /\ UNCHANGED <<bundle, pulls, svars, wkeep, xvars>>

\* The user or the agent edits or deletes a file of the overlay
UserEditFile(f, c) ==
    /\ c # ov.files[f]
    /\ ov' = [ov EXCEPT !.files[f] = c]
    /\ Edited(f)

UserEditSoul(c) ==
    /\ c # ov.soul
    /\ ov' = [ov EXCEPT !.soul = c]
    /\ Edited("CLAUDE.md")

\* APP_SOURCE_DIR/preload.js is edited
UserEditPreload(c) ==
    /\ c # ov.preload
    /\ ov' = [ov EXCEPT !.preload = c]
    /\ Edited("preload.js")

\* .source-hash is deleted, or saved again with a trailing newline
UserEditHash(c) ==
    /\ c # ov.hash
    /\ ov' = [ov EXCEPT !.hash = c]
    /\ Edited(".source-hash")

\* A plugin file is dropped in, or removed from, PLUGINS_DIR
UserEditPlugin(f, c) ==
    /\ ov.plugins.dir
    /\ c # ov.plugins.files[f]
    /\ ov' = [ov EXCEPT !.plugins.files[f] = c]
    /\ watchers' = Deliver(watchers, "plugins", f, now)
    /\ lastRun' = [NoRun EXCEPT !.op = "edit", !.file = f]
    /\ UNCHANGED <<bundle, pulls, svars, wkeep, xvars>>

\* The change events of a handler's own writes, in the order of the writes
RECURSIVE DeliverAll(_, _, _)
DeliverAll(ws, evs, t) ==
    IF evs = <<>> THEN ws
    ELSE DeliverAll(Deliver(ws, Head(evs).dir, Head(evs).file, t), Tail(evs), t)

RootEvents(names) == [i \in 1..Len(names) |-> [dir |-> "root", file |-> names[i]]]
CopiedSeq(copied) == SelectSeq(EDITABLE_FILES, LAMBDA f : f \in copied)

\* the files of APP_SOURCE_DIR a run of ensureEditableSource wrote, in order
RunEvents(run) ==
    RootEvents(CopiedSeq(run.copied)
               \o (IF run.wroteHash THEN <<".source-hash">> ELSE <<>>)
               \o (IF run.wrotePreload THEN <<"preload.js">> ELSE <<>>)
               \o (IF run.wroteSoul THEN <<"CLAUDE.md">> ELSE <<>>))

\* The reset handlers are invoked by the renderer: a createWindow has got past
\* ensureEditableSource() before, which copies preload.js on every run.
RendererUp == ov.preload.exists

\* The loop of 'reset-app-source' and 'nuke-app-source': every file the bundle
\* has is copied; a copyFileSync that throws leaves the handler.
ResetLoop(files, b, failAt) ==
    CopyLoop(1, [files |-> files, copied |-> {}, threw |-> FALSE], b, TRUE, failAt)

\* A variant of 'reset-app-source' that also removes CLAUDE.md.
ResetAppSourceAndSoul(failAt) ==
    /\ RendererUp
    /\ LET loop == ResetLoop(ov.files, bundle, failAt) IN
       /\ ov' = [ov EXCEPT !.files = loop.files, !.soul = NoFile]
       /\ lastRun' = [NoRun EXCEPT !.op = "reset-app-source",
                                   !.copied = loop.copied, !.threw = loop.threw,
                                   !.file = IF loop.threw THEN failAt ELSE ""]
       /\ watchers' = DeliverAll(watchers, RootEvents(CopiedSeq(loop.copied)), now)
    /\ UNCHANGED <<bundle, pulls, svars, wkeep, xvars>>

\* ipcMain.handle('reset-app-source')
ResetAppSource(failAt) ==
    /\ RendererUp
    /\ LET loop == ResetLoop(ov.files, bundle, failAt) IN
       /\ ov' = [ov EXCEPT !.files = loop.files]
       /\ lastRun' = [NoRun EXCEPT !.op = "reset-app-source",
                                   !.copied = loop.copied, !.threw = loop.threw,
                                   !.file = IF loop.threw THEN failAt ELSE ""]
       /\ watchers' = DeliverAll(watchers, RootEvents(CopiedSeq(loop.copied)), now)
    /\ UNCHANGED <<bundle, pulls, svars, wkeep, xvars>>

\* try { fs.unlinkSync(CLAUDE.md) } catch (_) {}: unlinked tells whether the
\* unlink of a file that exists goes through
UnlinkSoul(o, unlinked) == IF o.soul.exists /\ unlinked THEN [o EXCEPT !.soul = NoFile] ELSE o

\* ipcMain.handle('reset-soul'): unlink, then ensureEditableSource()
ResetSoul(unlinked, failAt) ==
    /\ RendererUp
    /\ LET o1 == UnlinkSoul(ov, unlinked)
           r == EnsureEditableSource(o1, bundle, failAt) IN
       /\ ov' = r.ov
       /\ lastRun' = [r.run EXCEPT !.op = "reset-soul",
                                   !.swallowed = ov.soul.exists /\ ~unlinked]
       /\ watchers' = DeliverAll(watchers,
                          (IF o1.soul # ov.soul THEN RootEvents(<<"CLAUDE.md">>) ELSE <<>>)
                          \o RunEvents(r.run), now)
    /\ UNCHANGED <<bundle, pulls, svars, wkeep, xvars>>

\* the plugin wipe of 'nuke-app-source': readdirSync, then one
\* try { unlinkSync } catch (_) {} per entry; stuck are the entries whose
\* unlink throws
WipePlugins(o, stuck) ==
    IF ~o.plugins.dir THEN o
    ELSE [o EXCEPT !.plugins.files =
             [f \in PluginNames |-> IF f \in stuck THEN @[f] ELSE NoFile]]
WipedSeq(o, stuck) ==
    SelectSeq(<<"n.txt", "p.js", "q.css">>,
              LAMBDA f : o.plugins.dir /\ o.plugins.files[f].exists /\ f \notin stuck)

\* A variant of 'nuke-app-source' without the plugin wipe.
NukeAppSourceKeepPlugins(copyFail, unlinked, stuck, failAt) ==
    /\ RendererUp
    /\ stuck \subseteq {f \in PluginNames : ov.plugins.files[f].exists}
    /\ LET loop == ResetLoop(ov.files, bundle, copyFail)
           o1 == [ov EXCEPT !.files = loop.files]
           run1 == [NoRun EXCEPT !.op = "nuke-app-source",
                                 !.copied = loop.copied, !.threw = loop.threw,
                                 !.file = IF loop.threw THEN copyFail ELSE ""]
           o2 == UnlinkSoul(o1, unlinked)
           r == EnsureEditableSource(o2, bundle, failAt)
       IN  IF loop.threw
           THEN /\ ov' = o1
                /\ lastRun' = run1
                /\ watchers' = DeliverAll(watchers,
                                          RootEvents(CopiedSeq(loop.copied)), now)
           ELSE /\ ov' = r.ov
                /\ lastRun' = [r.run EXCEPT
                                  !.op = "nuke-app-source",
                                  !.copied = loop.copied \cup r.run.copied,
                                  !.swallowed = (ov.soul.exists /\ ~unlinked)
                                                 \/ stuck # {}]
                /\ watchers' = DeliverAll(watchers,
                                   RootEvents(CopiedSeq(loop.copied))
                                   \o (IF o2.soul # o1.soul
                                       THEN RootEvents(<<"CLAUDE.md">>) ELSE <<>>)
                                   \o RunEvents(r.run), now)
    /\ UNCHANGED <<bundle, pulls, svars, wkeep, xvars>>

\* ipcMain.handle('nuke-app-source'): the reset loop, the unlink of CLAUDE.md,
\* the plugin wipe, ensureEditableSource()
NukeAppSource(copyFail, unlinked, stuck, failAt) ==
    /\ RendererUp
    /\ stuck \subseteq {f \in PluginNames : ov.plugins.files[f].exists}
    /\ LET loop == ResetLoop(ov.files, bundle, copyFail)
           o1 == [ov EXCEPT !.files = loop.files]
           run1 == [NoRun EXCEPT !.op = "nuke-app-source",
                                 !.copied = loop.copied, !.threw = loop.threw,
                                 !.file = IF loop.threw THEN copyFail ELSE ""]
           o2 == UnlinkSoul(o1, unlinked)
           o3 == WipePlugins(o2, stuck)
           wiped == WipedSeq(o2, stuck)
           r == EnsureEditableSource(o3, bundle, failAt)
       IN  IF loop.threw
           THEN /\ ov' = o1
                /\ lastRun' = run1
                /\ watchers' = DeliverAll(watchers,
                                          RootEvents(CopiedSeq(loop.copied)), now)
           ELSE /\ ov' = r.ov
                /\ lastRun' = [r.run EXCEPT
                                  !.op = "nuke-app-source",
                                  !.copied = loop.copied \cup r.run.copied,
                                  !.swallowed = (ov.soul.exists /\ ~unlinked)
                                                 \/ stuck # {}]
                /\ watchers' = DeliverAll(watchers,
                                   RootEvents(CopiedSeq(loop.copied))
                                   \o (IF o2.soul # o1.soul
                                       THEN RootEvents(<<"CLAUDE.md">>) ELSE <<>>)
                                   \o [i \in 1..Len(wiped) |->
                                          [dir |-> "plugins", file |-> wiped[i]]]
                                   \o RunEvents(r.run), now)
    /\ UNCHANGED <<bundle, pulls, svars, wkeep, xvars>>

OverlayNext ==
    \/ \E failAt \in FailPoints : Sync(failAt)
    \/ \E f \in EditableSet, c \in {NoFile} \cup {File(d) : d \in BundleData} :
          pulls < MaxPulls /\ BundleUpdate(f, c)
    \/ \E f \in EditableSet, c \in {NoFile, File(UserData)} : UserEditFile(f, c)
    \/ \E c \in {NoFile, File(UserData)} : UserEditSoul(c)
    \/ \E c \in {NoFile} \cup
             (IF ov.hash.exists /\ Len(ov.hash.data) < 2
              THEN {File(Append(ov.hash.data, 0))} ELSE {}) : UserEditHash(c)

\* The reset handlers between runs of the sync.
ResetNext ==
    \/ \E failAt \in {"none", "styles.css", "hash"} : Sync(failAt)
    \/ \E f \in {"renderer.js", "styles.css"}, c \in {NoFile, File(<<2>>)} :
          pulls < MaxPulls /\ BundleUpdate(f, c)
    \/ \E f \in {"renderer.js", "index.html"} : UserEditFile(f, File(UserData))
    \/ \E c \in {NoFile, File(UserData)} : UserEditSoul(c)
    \/ \E f \in {"p.js", "q.css"} : UserEditPlugin(f, File(UserData))
    \/ \E failAt \in {"none", "styles.css"} : ResetAppSource(failAt)
    \/ \E unlinked \in BOOLEAN, failAt \in {"none", "soul"} :
          ResetSoul(unlinked, failAt)
    \/ \E copyFail \in {"none", "styles.css"}, unlinked \in BOOLEAN,
          stuck \in {{}, {"p.js"}}, failAt \in {"none", "soul"} :
          NukeAppSource(copyFail, unlinked, stuck, failAt)

\* The window with its watchers, on a bundle that stays as installed.
WindowNext ==
    \/ \E failAt \in FailPoints \cup {"watch"} : CreateWindow(failAt)
    \/ \E f \in EditableSet : UserEditFile(f, File(UserData))
    \/ UserEditSoul(File(UserData))
    \/ UserEditPreload(File(UserData))
    \/ UserEditPlugin("n.txt", File(UserData))
    \/ \E i \in 1..Len(watchers) : DebounceFire(i)
    \/ GraceFire
    \/ \E d \in WinSteps : now + d <= MaxWinTime /\ WinTick(d)

\* The clock advances the watch runs take: to the next timer that is due,
\* or 100 ms or 300 ms into the quiet period of a debounce timer that was
\* just armed.
WatchSteps ==
    {due - now : due \in PendingDues}
    \cup (IF \E i \in 1..Len(watchers) :
                watchers[i].debounce.armed /\ watchers[i].debounce.due = now + DebounceMs
          THEN {100, 300} ELSE {})

\* The window through close, hide, activate and quit, with the changes of two
\* files: styles.css and a plugin.
WatchNext ==
    \/ \E failAt \in {"none", "watchPlugins"} : CreateWindow(failAt)
    \/ UserEditFile("styles.css", File(UserData))
    \/ UserEditPlugin("p.js", File(UserData))
    \/ \E i \in 1..Len(watchers) : DebounceFire(i)
    \/ GraceFire
    \/ Len(signals) < MaxSignals /\ WindowClose
    \/ \E killed \in BOOLEAN : CloseFire(killed)
    \/ Len(signals) < MaxSignals /\ ToggleKey
    \/ ActivateShow
    \/ \E killed \in BOOLEAN : AppQuit(killed)
    \/ \E d \in WatchSteps : d > 0 /\ now + d <= MaxWinTime /\ WinTick(d)

\* ------------------------------------------------- overlay claims
\* C8: a sync run that meets no I/O failure and starts with .source-hash
\* absent or (trimmed) different from the bundled digest ends with every
\* overlay file that exists in the bundle equal to the bundled file, and with
\* .source-hash holding the bundled digest.
C8_SyncOverwrites ==
    [][(/\ lastRun'.op = "sync" /\ ~lastRun'.threw
        /\ (~ov.hash.exists \/ Trim(ov.hash.data) # HashFiles(bundle)))
       => (/\ \A f \in EditableSet : bundle[f].exists => ov'.files[f] = bundle[f]
           /\ ov'.hash = File(HashFiles(bundle)))]_vars

\* a completed run after a bundle update that rewrote the digest, next to an
\* edited file the bundle no longer ships
C8_Witness ==
    /\ lastRun.op = "sync" /\ ~lastRun.threw /\ lastRun.wroteHash
    /\ pulls > 0
    /\ lastRun.copied = {f \in EditableSet : bundle[f].exists}
    /\ \E f \in EditableSet : ~bundle[f].exists /\ ov.files[f] = File(UserData)

\* C9: a sync run that directly follows a completed sync run (same bundle,
\* nothing else in between) copies no editable file and does not write
\* .source-hash.
C9_SecondRunIdle ==
    [][(lastRun.op = "sync" /\ ~lastRun.threw /\ lastRun'.op = "sync")
       => (lastRun'.copied = {} /\ ~lastRun'.wroteHash)]_vars

\* a run that did nothing, on an overlay whose digest is current
C9_Witness ==
    /\ lastRun.op = "sync" /\ ~lastRun.threw
    /\ lastRun.copied = {} /\ ~lastRun.wroteHash
    /\ ov.hash = File(HashFiles(bundle))
    /\ pulls > 0

\* C10: a sync run that starts with CLAUDE.md present leaves its content as
\* it was, whether or not the run completes.
C10_SoulKept ==
    [][(lastRun'.op = "sync" /\ ov.soul.exists) => ov'.soul = ov.soul]_vars

\* an edited CLAUDE.md after a run that did overwrite the editable files
C10_Witness ==
    /\ lastRun.op = "sync" /\ ~lastRun.threw
    /\ lastRun.wroteHash /\ lastRun.copied # {}
    /\ ov.soul = File(UserData)

\* ------------------------------------------------- reset claims
\* the overlay's editable files that the bundle ships equal the bundled ones
FilesAsBundled(o, b) == \A f \in EditableSet : b[f].exists => o.files[f] = b[f]

\* C11: a CLAUDE.md that was created and then deleted by hand, not by
\* 'reset-soul' or 'nuke-app-source', is not written again by the regular run
\* of the sync that follows.
C11_OnlyResetRegenerates ==
    [][(/\ lastRun.op = "edit" /\ lastRun.file = "CLAUDE.md"
        /\ ~ov.soul.exists
        /\ lastRun'.op = "sync")
       => ~ov'.soul.exists]_vars

\* C12: a 'reset-app-source' that returns ends with every overlay editable
\* file the bundle ships equal to the bundled file; and, whether it returns
\* or throws, it leaves CLAUDE.md, the plugin directory and .source-hash as
\* they were.
C12_ResetRestores ==
    [][lastRun'.op = "reset-app-source"
       => (/\ ~lastRun'.threw => FilesAsBundled(ov', bundle)
           /\ ov'.soul = ov.soul
           /\ ov'.plugins = ov.plugins
           /\ ov'.hash = ov.hash)]_vars

\* a reset after a bundle update, next to an edited CLAUDE.md, a plugin and
\* the digest of the bundle before the update
C12_Witness ==
    /\ lastRun.op = "reset-app-source" /\ ~lastRun.threw
    /\ lastRun.copied # {}
    /\ pulls > 0
    /\ FilesAsBundled(ov, bundle)
    /\ ov.soul = File(UserData)
    /\ \E f \in PluginNames : ov.plugins.files[f].exists
    /\ ov.hash.exists /\ ov.hash.data # HashFiles(bundle)

\* C13: a 'nuke-app-source' in which no fs call fails ends with every overlay
\* editable file the bundle ships equal to the bundled file, CLAUDE.md equal
\* to the template, and no file in the plugin directory.
C13_NukeRestores ==
    [][(lastRun'.op = "nuke-app-source" /\ ~lastRun'.threw /\ ~lastRun'.swallowed)
       => (/\ FilesAsBundled(ov', bundle)
           /\ ov'.soul = File(DefaultSoul)
           /\ \A f \in PluginNames : ~ov'.plugins.files[f].exists)]_vars

\* a nuke after a bundle update: the sync it ends with wrote the new digest
\* and the template
C13_Witness ==
    /\ lastRun.op = "nuke-app-source" /\ ~lastRun.threw /\ ~lastRun.swallowed
    /\ lastRun.wroteSoul /\ lastRun.wroteHash
    /\ pulls > 0
    /\ ov.soul = File(DefaultSoul)
    /\ \E f \in EditableSet : ~bundle[f].exists /\ ov.files[f].exists

\* ------------------------------------------------- sync failure claims
\* C21: a sync run writes .source-hash only after every copy of its loop went
\* through: the run that changes the file has copied every file the bundle
\* ships and leaves the digest of that bundle in it; a run in which a copy
\* failed, like every run that does not get to the write, leaves .source-hash
\* as it was.
C21_DigestAfterCopies ==
    [][lastRun'.op = "sync"
       => (/\ (lastRun'.wroteHash \/ ov'.hash # ov.hash)
                => (/\ lastRun'.copied = {f \in EditableSet : bundle[f].exists}
                    /\ FilesAsBundled(ov', bundle)
                    /\ ov'.hash = File(HashFiles(bundle)))
           /\ ~lastRun'.wroteHash => ov'.hash = ov.hash)]_vars

\* a run after a bundle update that copied one file and failed on the next:
\* .source-hash still holds the digest of the bundle before the update
C21_Witness ==
    /\ lastRun.op = "sync" /\ lastRun.threw /\ ~lastRun.wroteHash
    /\ lastRun.copied # {}
    /\ \E f \in EditableSet : bundle[f].exists /\ ov.files[f] # bundle[f]
    /\ pulls > 0
    /\ ov.hash.exists /\ ov.hash.data # HashFiles(bundle)

\* C22, as stated: a sync run that finds the bundled digest in .source-hash
\* copies no editable file and does not write .source-hash, whatever the
\* overlay holds.
C22_MatchCopiesNothing ==
    [][(lastRun'.op = "sync" /\ CachedHash(ov) = HashFiles(bundle))
       => (/\ lastRun'.copied = {}
           /\ ov'.files = ov.files
           /\ ~lastRun'.wroteHash /\ ov'.hash = ov.hash)]_vars

\* C22, amended: a sync run that finds the bundled digest in .source-hash
\* overwrites no editable file the overlay has and does not write
\* .source-hash; the files it copies are files the overlay lacks and the
\* bundle ships, all of them when the run completes.
C22_MatchCopiesMissingOnly ==
    [][(lastRun'.op = "sync" /\ CachedHash(ov) = HashFiles(bundle))
       => (/\ \A f \in EditableSet : ov.files[f].exists => ov'.files[f] = ov.files[f]
           /\ lastRun'.copied
                 \subseteq {f \in EditableSet : ~ov.files[f].exists /\ bundle[f].exists}
           /\ ~lastRun'.threw
                 => lastRun'.copied
                      = {f \in EditableSet : ~ov.files[f].exists /\ bundle[f].exists}
           /\ ~lastRun'.wroteHash /\ ov'.hash = ov.hash)]_vars

\* a completed run on a current digest that brought back a deleted file and
\* left an edited one alone
C22_Witness ==
    /\ lastRun.op = "sync" /\ ~lastRun.threw
    /\ ~lastRun.wroteHash /\ CachedHash(ov) = HashFiles(bundle)
    /\ lastRun.copied # {}
    /\ \E f \in EditableSet : f \notin lastRun.copied /\ ov.files[f] = File(UserData)

\* C23: when the copy of an editable file fails in the sync, in
\* 'reset-app-source' or in 'nuke-app-source', the operation does not throw,
\* and every other file its loop had to copy is copied all the same.
C23_CopyFailuresCaught ==
    [][(/\ lastRun'.op \in {"sync", "reset-app-source", "nuke-app-source"}
        /\ lastRun'.file \in EditableSet)
       => (/\ ~lastRun'.threw
           /\ \A f \in EditableSet \ {lastRun'.file} :
                 (/\ bundle[f].exists
                  /\ \/ lastRun'.op # "sync"
                     \/ ~ov.files[f].exists
                     \/ SourceUpdated(ov, bundle))
                 => f \in lastRun'.copied)]_vars

\* C24: a 'reset-soul' that returns ends with CLAUDE.md equal to the template
\* and with every editable file of the overlay, present or absent, and every
\* plugin file as it was before the call.
C24_ResetSoulOnly ==
    [][(lastRun'.op = "reset-soul" /\ ~lastRun'.threw)
       => (/\ ov'.soul = File(DefaultSoul)
           /\ ov'.files = ov.files
           /\ ov'.plugins.files = ov.plugins.files)]_vars

\* ------------------------------------------------- window claims
\* C7: whenever the window has loaded (first load or forced reload), the
\* preload script it executed is the bundled preload.js, whatever was
\* written to APP_SOURCE_DIR/preload.js in the meantime.
C7_BridgeFromBundle ==
    mainWindow.state = "open" => mainWindow.preload = File(BundledPreload)

\* the action the timer in slot d stands for when it fires
SlotKind(d) == Kind(d.src, d.file)

\* a 'save-state' pushed by handler `by` exactly d ms ago
SentBefore(by, d) ==
    \E k \in 1..Len(signals) :
        signals[k].sig = "save-state" /\ signals[k].by = by /\ signals[k].t = now - d

\* C14: when the debounce timer of a burst fires with the window open, it
\* pushes one signal, and it is the only timer the burst armed: no second
\* timer with the same due time is pending, so the burst has one action.
C14_OneActionPerBurst ==
    [][\A i \in 1..Len(watchers) :
          (/\ watchers[i].debounce.armed
           /\ i \in 1..Len(watchers') /\ ~watchers'[i].debounce.armed
           /\ mainWindow.state = "open")
          => (/\ Len(signals') = Len(signals) + 1
              /\ now = watchers[i].debounce.due
              /\ \A j \in 1..Len(watchers) \ {i} :
                    ~(/\ watchers[j].debounce.armed
                      /\ watchers[j].debounce.due = watchers[i].debounce.due))]_vars

C16_SaveStateFirst ==
    [][/\ (mainWindow.state = "open" /\ mainWindow'.state = "destroyed")
          => SentBefore("close", 300)
       /\ (/\ mainWindow.state = "open" /\ mainWindow'.state = "open"
           /\ mainWindow.visible /\ ~mainWindow'.visible)
          => signals' = Append(signals, Signal("save-state", "toggle", now))
       /\ (/\ Len(signals') = Len(signals) + 1
           /\ signals'[Len(signals')].sig = "reload")
          => SentBefore("watcher", 200)]_vars

\* a window that was hidden by the hotkey, reloaded by the watcher and then
\* destroyed by the close timer
C16_Witness ==
    /\ mainWindow.state = "destroyed"
    /\ ~mainWindow.visible
    /\ \E k \in 1..Len(signals) : signals[k].by = "toggle" /\ signals[k].sig = "save-state"
    /\ \E k \in 1..Len(signals) : signals[k].sig = "reload"
    /\ SentBefore("close", 300)

\* C26: a change of a file that is neither one of EDITABLE_FILES nor a file
\* ending in .js or .css, in APP_SOURCE_DIR or in PLUGINS_DIR, leaves every
\* debounce timer as it was: none is armed, none is cancelled or re-armed.
C26_OthersIgnored ==
    [][(lastRun'.op = "edit" /\ ~IsEditable(lastRun'.file)) => watchers' = watchers]_vars

\* C27: a createWindow that opens the window raises nothing, whether or not
\* its watchers could be set up.
C27_WatchFailureNonFatal ==
    [][(mainWindow.state # "open" /\ mainWindow'.state = "open")
       => signals' = signals]_vars

\* C25: at every instant at most one debounce timer is pending, over all the
\* watchers startFileWatcher() ever opened.
C25_OnePendingTimer ==
    Cardinality({i \in 1..Len(watchers) : watchers[i].debounce.armed}) <= 1

\* C28: the 200 ms timer of a watcher never finds the window destroyed:
\* reloadIgnoringCache() is not called on a destroyed window, whatever the
\* order of the close request, the debounce timer and the close timer.
C28_NoReloadOnDestroyed ==
    \A k \in 1..Len(signals) :
        ~(signals[k].sig = "uncaught-exception" /\ signals[k].by = "watcher")

NoSnapshot == [t |-> "none"]
Undefined == [t |-> "undefined"]
JNull == [t |-> "null"]
JNum(ds) == [t |-> "num", digits |-> ds]
JArr(xs) == [t |-> "arr", items |-> xs]
JBool(b) == [t |-> IF b THEN "true" ELSE "false"]
Unparsable == [t |-> "SyntaxError"]

JsonValues == {JNull, JNum(<<"1">>), JNum(<<"1", "2">>), JArr(<<>>),
               JArr(<<JNum(<<"1">>)>>), JArr(<<JNum(<<"1">>), JNull>>)}
Snapshots == JsonValues \cup {Undefined}    \* what the renderer may pass

\* JSON.stringify(state, null, 2) of null and of a number
Scalar(x) == IF x.t = "null" THEN <<"n", "u", "l", "l">> ELSE x.digits

\* the elements of an array, each on a line of its own, indented by two
RECURSIVE ItemsText(_)
ItemsText(xs) ==
    IF xs = <<>> THEN <<>>
    ELSE <<"\n", " ", " ">> \o Scalar(Head(xs))
         \o (IF Len(xs) > 1 THEN <<",">> ELSE <<>>) \o ItemsText(Tail(xs))

\* JSON.stringify(state, null, 2) of a JSON value
Stringify(v) ==
    IF v.t = "arr"
    THEN IF v.items = <<>> THEN <<"[", "]">>
         ELSE <<"[">> \o ItemsText(v.items) \o <<"\n", "]">>
    ELSE Scalar(v)

\* JSON.parse(data): the value the text stands for, SyntaxError when it stands
\* for none
Parse(text) ==
    IF \E v \in JsonValues : Stringify(v) = text
    THEN CHOOSE v \in JsonValues : Stringify(v) = text
    ELSE Unparsable

SaveFails == {"none", "mkdir", "open", "write"}

StateInit ==
    /\ stateFile = NoFile
    /\ lastSaved = NoSnapshot
    /\ stateReply = [op |-> "none", arg |-> NoSnapshot, val |-> NoSnapshot]

\* ipcMain.handle('save-state'): mkdirSync, JSON.stringify, writeFileSync,
\* return true; catch: return false.  fail names the call that throws;
\* writeFileSync of undefined throws before the file is opened; a write that
\* fails after the file was opened (flag 'w') leaves the first k characters.
SaveState(v, fail, k) ==
    /\ IF fail = "write" /\ v # Undefined
       THEN k \in 0..(Len(Stringify(v)) - 1)
       ELSE k = 0
    /\ LET ok == fail = "none" /\ v # Undefined IN
       /\ stateFile' = IF fail = "mkdir" \/ v = Undefined \/ fail = "open"
                       THEN stateFile
                       ELSE IF fail = "write"
                       THEN File(SubSeq(Stringify(v), 1, k))
                       ELSE File(Stringify(v))
       /\ lastSaved' = IF ok THEN v ELSE lastSaved
       /\ stateReply' = [op |-> "save", arg |-> v, val |-> JBool(ok)]
    /\ UNCHANGED <<pathCall, svars, ovars, wvars>>

\* ipcMain.handle('load-state'): readFileSync, JSON.parse; catch: return null
LoadState ==
    /\ stateReply' = [op |-> "load", arg |-> NoSnapshot,
                      val |-> IF ~stateFile.exists THEN JNull
                              ELSE IF Parse(stateFile.data) = Unparsable THEN JNull
                              ELSE Parse(stateFile.data)]
    /\ UNCHANGED <<stateFile, lastSaved, pathCall, svars, ovars, wvars>>

MaxText == 15   \* characters a failed write may leave in STATE_FILE

StateNext ==
    \/ \E v \in Snapshots, fail \in SaveFails, k \in 0..MaxText : SaveState(v, fail, k)
    \/ LoadState

\* C17: 'load-state' returns the snapshot of the last 'save-state' that
\* returned true, and null when STATE_FILE is missing or cannot be parsed.
C17_LoadReturnsLastSaved ==
    stateReply.op = "load"
    => (/\ lastSaved # NoSnapshot => stateReply.val = lastSaved
        /\ (~stateFile.exists \/ Parse(stateFile.data) = Unparsable)
              => stateReply.val = JNull)

(***************************************************************************)
(* Part 5, SpecPath: winToWslPath(winPath).  A path is a string, a         *)
(* sequence of characters.                                                 *)
(***************************************************************************)
MaxPathLen == 5     \* characters in a working directory

\* the characters of a working directory: two letters, a digit, the colon
\* and the two separators
PathChars == {"C", "d", "1", ":", "\\", "/"}
Letters == {"C", "d"}                   \* [A-Za-z]
LineTerminators == {"\n", "\r"}         \* what `.` does not match
Paths == UNION {[1..n -> PathChars] : n \in 0..MaxPathLen}

\* String.prototype.toLowerCase of one character
ToLowerCase(c) == IF c = "C" THEN "c" ELSE c

\* (.*): the longest run of characters that are not line terminators
RECURSIVE DotStar(_)
DotStar(x) ==
    IF x = <<>> \/ Head(x) \in LineTerminators THEN <<>>
    ELSE <<Head(x)>> \o DotStar(Tail(x))

\* A variant of replace without the g flag: the first backslash only.
RECURSIVE ReplaceFirstBackslash(_)
ReplaceFirstBackslash(x) ==
    IF x = <<>> THEN <<>>
    ELSE IF Head(x) = "\\" THEN <<"/">> \o Tail(x)
    ELSE <<Head(x)>> \o ReplaceFirstBackslash(Tail(x))

\* m[2].replace(/\\/g, '/')
RECURSIVE ReplaceBackslashes(_)
ReplaceBackslashes(x) ==
    IF x = <<>> THEN <<>>
    ELSE <<IF Head(x) = "\\" THEN "/" ELSE Head(x)>> \o ReplaceBackslashes(Tail(x))

\* winPath.match(/^([A-Za-z]):[/\\](.*)/) finds a match
Matches(winPath) ==
    /\ Len(winPath) >= 3
    /\ winPath[1] \in Letters
    /\ winPath[2] = ":"
    /\ winPath[3] \in {"/", "\\"}

\* winToWslPath(winPath) where IS_WIN is isWin
WinToWslPath(isWin, winPath) ==
    IF winPath = <<>> \/ ~isWin THEN winPath
    ELSE IF ~Matches(winPath) THEN winPath
    ELSE <<"/", "m", "n", "t", "/">> \o <<ToLowerCase(winPath[1])>> \o <<"/">>
         \o ReplaceBackslashes(DotStar(SubSeq(winPath, 4, Len(winPath))))

NoCall == [isWin |-> FALSE, arg |-> <<>>, out |-> <<>>, done |-> FALSE]

PathInit == pathCall = NoCall

\* the working directory a 'terminal-create' call is about to translate
PathStart ==
    pathCall \in {[NoCall EXCEPT !.isWin = w, !.arg = p] : w \in BOOLEAN, p \in Paths}

\* const wslDir = winToWslPath(dir)
WinToWslCall ==
    /\ ~pathCall.done
    /\ pathCall' = [pathCall EXCEPT !.out = WinToWslPath(pathCall.isWin, pathCall.arg),
                                    !.done = TRUE]
    /\ UNCHANGED <<stateFile, lastSaved, stateReply, svars, ovars, wvars>>

PathNext == WinToWslCall

\* C18: with IS_WIN, a path <letter>:\rest or <letter>:/rest comes back as
\* /mnt/<lower-cased letter>/<rest with every backslash turned into a
\* slash>; every other path, and every path without IS_WIN, comes back
\* unchanged.
C18_DrivePathTranslated ==
    pathCall.done =>
        LET p == pathCall.arg
            rest == SubSeq(p, 4, Len(p))
        IN  IF /\ pathCall.isWin /\ Len(p) >= 3
               /\ p[1] \in {"C", "d"} /\ p[2] = ":" /\ p[3] \in {"\\", "/"}
            THEN pathCall.out
                   = <<"/", "m", "n", "t", "/", (IF p[1] = "C" THEN "c" ELSE "d"), "/">>
                     \o [i \in 1..Len(rest) |-> IF rest[i] = "\\" THEN "/" ELSE rest[i]]
            ELSE pathCall.out = p

\* C:\\\ has become /mnt/c/// : the letter lower-cased, both backslashes of the
\* rest replaced
C18_Witness ==
    /\ pathCall.done /\ pathCall.isWin
    /\ pathCall.arg = <<"C", ":", "\\", "\\", "\\">>
    /\ pathCall.out = <<"/", "m", "n", "t", "/", "c", "/", "/", "/">>

(***************************************************************************)
(* The specifications: each runs one part of the program from the state    *)
(* after start-up.                                                         *)
(***************************************************************************)
Init == SessionInit /\ OverlayInit /\ WindowInit /\ StateInit /\ PathInit
InitPath == SessionInit /\ OverlayInit /\ WindowInit /\ StateInit /\ PathStart

SpecSession == Init /\ [][SessionNext]_vars
SpecActivity == Init /\ [][ActivityNext]_vars
SpecOverlay == Init /\ [][OverlayNext]_vars
SpecReset == Init /\ [][ResetNext]_vars
SpecWindow == Init /\ [][WindowNext]_vars
SpecWatch == Init /\ [][WatchNext]_vars
SpecState == Init /\ [][StateNext]_vars
SpecPath == InitPath /\ [][PathNext]_vars

====
